---- MODULE Spec2Model ----
(***************************************************************************)
(* Qiita MCP server (src/main.py): six tools, each a thin mapping from a   *)
(* tool call to at most one outbound HTTP request on a shared httpx        *)
(* AsyncClient whose request hook injects the bearer token of the inbound  *)
(* request that is being handled.                                          *)
(*                                                                         *)
(* Encoding of Python / JSON values:                                       *)
(*   - a dict is a function over its keys (EmptyDict is {});               *)
(*   - an optional value is a sequence of length 0 (None / JSON null) or   *)
(*     1 (the value);                                                      *)
(*   - rendered_body, the only string that is sliced, is a sequence of     *)
(*     character codes; the other strings are TLA+ strings;                *)
(*   - a response body is [list |-> ..], [object |-> ..] (JSON) or         *)
(*     [text |-> ..] (not JSON);                                           *)
(*   - the outcome of a tool call is [ok |-> value] or [error |-> name of  *)
(*     the exception that propagates].                                     *)
(***************************************************************************)
EXTENDS Integers, Sequences, FiniteSets

VARIABLES
    pc,        \* per call: "idle", "awaiting" (suspended in the await), "done"
    call,      \* per call: the tool invocation [tool |-> name, args...]
    inbound,   \* per call: query parameters of the inbound HTTP request
    sent,      \* per call: the requests put on the wire to Qiita, in order
    resp,      \* per call: what the await produced (<<>> before it)
    result,    \* per call: what the tool call gave its caller (<<>> before)
    client     \* the shared httpx.AsyncClient's configuration

vars == <<pc, call, inbound, sent, resp, result, client>>

----------------------------------------------------------------------------
(* Bounds of the model *)

\* Concurrent tool calls in SpecConc.
NumCalls == 2
\* Longest list of items a list endpoint answers with.
MaxItems == 2
\* Longest rendered_body an upstream item carries (beyond SnippetLen).
MaxBodyLen == 201

(* Program constants *)

\* src/main.py:67, the slice bound of "snippet".
SnippetLen == 200

----------------------------------------------------------------------------
(* Python values *)

EmptyDict == [k \in {} |-> ""]
None == <<>>
Some(v) == <<v>>
Min(a, b) == IF a <= b THEN a ELSE b

\* dict.get(k): the value, or None when the key is absent.  Values of JSON
\* objects are stored optional-encoded, so an explicit null reads as None too.
Get(d, k) == IF k \in DOMAIN d THEN d[k] ELSE None

\* dict.setdefault(k, v) on a headers mapping.
SetDefault(d, k, v) ==
    IF k \in DOMAIN d THEN d
    ELSE [x \in DOMAIN d \cup {k} |-> IF x = k THEN v ELSE d[x]]

\* s[:n] for n >= 0.
SliceTo(s, n) == SubSeq(s, 1, Min(n, Len(s)))

\* bool(x) for a bool argument.
PyBool(x) == (x = TRUE)

\* A text of n characters; the character depends on its position.
Chars(n) == [i \in 1..n |-> 97 + (i % 26)]

----------------------------------------------------------------------------
(* The shared client and its request hook *)

BaseUrl == "https://qiita.com/api/v2/"

\* client = httpx.AsyncClient(base_url=..., event_hooks={'request': [...]})
ClientConfig == [base_url |-> BaseUrl, headers |-> EmptyDict]

\* client.build_request: the URL is joined to base_url, the client's default
\* headers are copied into the request.
BuildRequest(method, path, params, json) ==
    [method |-> method, url |-> client.base_url \o path,
     headers |-> client.headers, params |-> params, json |-> json]

\* A hook that reads the token of the earliest call still known to the
\* server instead of the current one (a token kept in shared state).
HookTokenShared(c, inb) ==
    LET live == {d \in DOMAIN pc : pc[d] # "idle"} \cup {c}
        first == CHOOSE d \in live : \A e \in live : d <= e
    IN  IF "token" \in DOMAIN inb[first] THEN Some(inb[first].token) ELSE None

\* get_http_request().query_params.get('token'), evaluated in the task of
\* call c: the inbound request is that task's own (a context variable).
HookToken(c, inb) ==
    IF "token" \in DOMAIN inb[c] THEN Some(inb[c].token) ELSE None

\* set_auth_header: 'Bearer ' + token is evaluated first and raises TypeError
\* for a None token; otherwise the header is set on the request unless present.
set_auth_header(c, inb, req) ==
    LET tok == HookToken(c, inb)
    IN  IF tok = None
        THEN [error |-> "TypeError"]
        ELSE [request |->
                [req EXCEPT !.headers =
                    SetDefault(@, "Authorization", "Bearer " \o tok[1])]]

\* A transmit that sends the request a second time.
TransmitTwice(wire, req) == Append(Append(wire, req), req)

\* The request goes on the wire once (httpx does not follow redirects or
\* retry unless configured to).
Transmit(wire, req) == Append(wire, req)

----------------------------------------------------------------------------
(* httpx.Response *)

\* Response.is_success
is_success(status) == 200 <= status /\ status <= 299

IsJson(body) == "text" \notin DOMAIN body

\* What `await client.<method>(...)` produces is a response
\* [status, body] or a transport failure [exc].
Failed(r) == "exc" \in DOMAIN r

\* resp.json() without a status check: the parsed body, or JSONDecodeError.
JsonResult(r) ==
    IF Failed(r) THEN [error |-> r.exc]
    ELSE IF ~IsJson(r.body) THEN [error |-> "JSONDecodeError"]
    ELSE [ok |-> r.body]

\* resp.raise_for_status(); resp.json()
CheckedJsonResult(r) ==
    IF Failed(r) THEN [error |-> r.exc]
    ELSE IF ~is_success(r.status) THEN [error |-> "HTTPStatusError"]
    ELSE JsonResult(r)

----------------------------------------------------------------------------
(* search_qiita_items: the projection of an upstream item *)

\* it.get("user", {}) and it.get("tags", []) for an item whose user and tags
\* are not null.
UserOf(it) == IF "user" \in DOMAIN it THEN it.user[1] ELSE EmptyDict
TagsOf(it) == IF "tags" \in DOMAIN it THEN it.tags[1] ELSE <<>>

\* The exception the projection of `it` raises ("" for none): a null user has
\* no .get (AttributeError), a null tags cannot be iterated (TypeError).
ItemError(it) ==
    IF "user" \in DOMAIN it /\ it.user = None THEN "AttributeError"
    ELSE IF "tags" \in DOMAIN it /\ it.tags = None THEN "TypeError"
    ELSE ""

\* [t.get("name") for t in it.get("tags", [])]
TagNames(it) == [i \in 1..Len(TagsOf(it)) |-> Get(TagsOf(it)[i], "name")]

\* A snippet that keeps the whole rendered body.
SnippetUncut(it) ==
    LET rb == Get(it, "rendered_body")
    IN  IF rb = None THEN <<>> ELSE rb[1]

\* (it.get("rendered_body") or "")[:200]
Snippet(it) ==
    LET rb == Get(it, "rendered_body")
    IN  SliceTo(IF rb = None \/ rb[1] = <<>> THEN <<>> ELSE rb[1], SnippetLen)

\* A projection whose url is read from the id (a copied line).
SummaryUrlFromId(it) ==
    [id |-> Get(it, "id"), title |-> Get(it, "title"), url |-> Get(it, "id"),
     likes_count |-> Get(it, "likes_count"),
     stocks_count |-> Get(it, "stocks_count"),
     created_at |-> Get(it, "created_at"),
     updated_at |-> Get(it, "updated_at"),
     user |-> [id |-> Get(UserOf(it), "id"), name |-> Get(UserOf(it), "name")],
     tags |-> TagNames(it), snippet |-> Snippet(it)]

\* The dict appended to results for one item.
Summary(it) ==
    [id |-> Get(it, "id"), title |-> Get(it, "title"), url |-> Get(it, "url"),
     likes_count |-> Get(it, "likes_count"),
     stocks_count |-> Get(it, "stocks_count"),
     created_at |-> Get(it, "created_at"),
     updated_at |-> Get(it, "updated_at"),
     user |-> [id |-> Get(UserOf(it), "id"), name |-> Get(UserOf(it), "name")],
     tags |-> TagNames(it), snippet |-> Snippet(it)]

\* for it in data: results.append({...}); return {"results": results}.
\* Iterating a JSON object yields its keys, which have no .get.
Project(data) ==
    IF "object" \in DOMAIN data
    THEN IF DOMAIN data.object = {}
         THEN [ok |-> [results |-> <<>>]]
         ELSE [error |-> "AttributeError"]
    ELSE LET items == data.list
             bad == {i \in 1..Len(items) : ItemError(items[i]) # ""}
         IN  IF bad # {}
             THEN [error |->
                    ItemError(items[CHOOSE i \in bad : \A j \in bad : i <= j])]
             ELSE [ok |-> [results |->
                             [i \in 1..Len(items) |-> Summary(items[i])]]]

----------------------------------------------------------------------------
(* What each tool gives its caller once the await has produced r *)

search_qiita_items_result(r) ==
    LET j == CheckedJsonResult(r)
    IN  IF "error" \in DOMAIN j THEN j ELSE Project(j.ok)

\* get_qiita_item without its status check.
get_qiita_item_unchecked(r) == JsonResult(r)

get_qiita_item_result(r) == CheckedJsonResult(r)

get_my_qiita_articles_result(r) ==
    LET j == CheckedJsonResult(r)
    IN  IF "error" \in DOMAIN j THEN j ELSE [ok |-> [results |-> j.ok]]

\* post_qiita_article with the status check the read tools make.
post_qiita_article_checked(r) == CheckedJsonResult(r)

post_qiita_article_result(r) == JsonResult(r)

update_qiita_article_result(r) == JsonResult(r)

\* get_qiita_markdown_rules
MarkdownRules ==
    [resources |-> <<"https://help.qiita.com/ja/articles/qiita-markdown",
                     "https://qiita.com/api/v2/docs">>]

NothingToUpdate == [message |-> "Nothing to update."]

----------------------------------------------------------------------------
(* Outbound payloads *)

\* post_qiita_article: title, body, private always; tags and
\* organization_url_name only when truthy; tweet is not read.
PostPayload(title, body, tags, private, tweet, org) ==
    LET keys == {"title", "body", "private"}
                \cup (IF tags # None /\ tags[1] # <<>> THEN {"tags"} ELSE {})
                \cup (IF org # None /\ org[1] # ""
                      THEN {"organization_url_name"} ELSE {})
    IN  [k \in keys |->
            CASE k = "title" -> title
              [] k = "body" -> body
              [] k = "private" -> PyBool(private)
              [] k = "tags" -> tags[1]
              [] k = "organization_url_name" -> org[1]]

\* A patch that sets private whether or not it was supplied.
UpdatePatchAlwaysPrivate(title, body, tags, private) ==
    LET keys == (IF title # None THEN {"title"} ELSE {})
                \cup (IF body # None THEN {"body"} ELSE {})
                \cup (IF tags # None THEN {"tags"} ELSE {})
                \cup {"private"}
    IN  [k \in keys |->
            CASE k = "title" -> title[1]
              [] k = "body" -> body[1]
              [] k = "tags" -> tags[1]
              [] k = "private" -> private # None /\ PyBool(private[1])]

\* update_qiita_article: one key per argument that is not None.
UpdatePatch(title, body, tags, private) ==
    LET keys == (IF title # None THEN {"title"} ELSE {})
                \cup (IF body # None THEN {"body"} ELSE {})
                \cup (IF tags # None THEN {"tags"} ELSE {})
                \cup (IF private # None THEN {"private"} ELSE {})
    IN  [k \in keys |->
            CASE k = "title" -> title[1]
              [] k = "body" -> body[1]
              [] k = "tags" -> tags[1]
              [] k = "private" -> PyBool(private[1])]

----------------------------------------------------------------------------
(* Upstream data the model draws from *)

PythonTag == [name |-> Some("python"), versions |-> Some(<<"3.11">>)]
FastmcpTag == [name |-> Some("fastmcp"), versions |-> Some(<<>>)]

\* Every field present; rendered_body longer than the snippet.
ItemFull ==
    [id |-> Some("i1"), title |-> Some("FastMCP"),
     url |-> Some("https://qiita.com/u1/items/i1"),
     likes_count |-> Some(3), stocks_count |-> Some(1),
     created_at |-> Some("2024-01-01T00:00:00+09:00"),
     updated_at |-> Some("2024-02-01T00:00:00+09:00"),
     user |-> Some([id |-> Some("u1"), name |-> Some("Alice"),
                    permanent_id |-> Some(7)]),
     tags |-> Some(<<PythonTag, FastmcpTag>>),
     rendered_body |-> Some(Chars(MaxBodyLen)),
     body |-> Some("# markdown"), private |-> Some(FALSE)]

\* No field at all.
ItemBare == EmptyDict

\* rendered_body null, a user without a name, a tag without a name.
ItemNullBody ==
    [id |-> Some("i3"), title |-> None, rendered_body |-> None,
     user |-> Some([id |-> Some("u3")]),
     tags |-> Some(<<[versions |-> Some(<<>>)], PythonTag>>)]

\* rendered_body of exactly SnippetLen characters, no tags.
ItemExact ==
    [id |-> Some("i4"), url |-> Some("https://qiita.com/u4/items/i4"),
     rendered_body |-> Some(Chars(SnippetLen)), tags |-> Some(<<>>)]

\* A short and an empty rendered_body.
ItemShort == [id |-> Some("i5"), likes_count |-> Some(0),
              rendered_body |-> Some(Chars(3))]
ItemEmptyBody == [title |-> Some(""), rendered_body |-> Some(<<>>)]

\* Items the projection cannot handle.
ItemNullUser == [id |-> Some("i7"), user |-> None, rendered_body |-> Some(Chars(1))]
ItemNullTags == [id |-> Some("i8"), stocks_count |-> Some(2), tags |-> None]

Items == {ItemFull, ItemBare, ItemNullBody, ItemExact, ItemShort,
          ItemEmptyBody, ItemNullUser, ItemNullTags}

ErrorObject == [object |-> [message |-> Some("Not found"), type |-> Some("not_found")]]
ItemObject == [object |-> ItemFull]
HtmlText == [text |-> "<html>Bad Gateway</html>"]

Statuses == {200, 201, 301, 401, 404, 500}

ItemLists == UNION {[1..n -> Items] : n \in 0..MaxItems}

ConnectError == [exc |-> "ConnectError"]

Replies(bodies) ==
    {[status |-> s, body |-> b] : s \in Statuses, b \in bodies} \cup {ConnectError}

\* What the list endpoints and the single-item endpoints may answer.
ListReplies ==
    Replies({[list |-> l] : l \in ItemLists} \cup {ErrorObject, ItemObject, HtmlText})
ItemReplies ==
    Replies({ErrorObject, ItemObject, HtmlText, [list |-> <<>>]})

Opt(S) == {None} \cup {Some(v) : v \in S}

\* Query parameters of the inbound request: with or without a token.
Connections == {EmptyDict, [token |-> "tokA"], [token |-> "tokB"]}

\* The inputs one tool call at a time is explored with.
FullInputs ==
    [conns |-> Connections,
     queries |-> {"tag:python"}, pages |-> {1, 2}, perPages |-> {10, 20},
     itemIds |-> {"a", "b"},
     titles |-> {"", "T"}, bodies |-> {"B"},
     optTitles |-> Opt({"", "T"}), optBodies |-> Opt({"B"}),
     optTags |-> Opt({<<>>, <<PythonTag>>}),
     privates |-> BOOLEAN, optPrivates |-> Opt(BOOLEAN), tweets |-> BOOLEAN,
     orgs |-> {None, Some(""), Some("org")},
     listReplies |-> ListReplies, itemReplies |-> ItemReplies]

\* The inputs concurrent tool calls are explored with.
ConcInputs ==
    [conns |-> Connections,
     queries |-> {"tag:python"}, pages |-> {1}, perPages |-> {10},
     itemIds |-> {"a"},
     titles |-> {"T"}, bodies |-> {"B"},
     optTitles |-> Opt({"T"}), optBodies |-> {None},
     optTags |-> {None},
     privates |-> {FALSE}, optPrivates |-> {None}, tweets |-> {FALSE},
     orgs |-> {None},
     listReplies |-> {[status |-> 200, body |-> [list |-> <<ItemShort>>]],
                      [status |-> 401, body |-> ErrorObject]},
     itemReplies |-> {[status |-> 200, body |-> ItemObject], ConnectError}]

----------------------------------------------------------------------------
(* State machine *)

NoCall == [tool |-> "none"]

InitCalls(calls) ==
    /\ pc = [c \in calls |-> "idle"]
    /\ call = [c \in calls |-> NoCall]
    /\ inbound = [c \in calls |-> EmptyDict]
    /\ sent = [c \in calls |-> <<>>]
    /\ resp = [c \in calls |-> None]
    /\ result = [c \in calls |-> None]
    /\ client = ClientConfig

\* The task of the one call of Spec, and the tasks of SpecConc.
OneCall == {1}
Calls == 1..NumCalls

Init == InitCalls(OneCall)
InitConc == InitCalls(Calls)

\* The inbound request with query parameters q invokes `inv` on task c, and
\* the tool returns `res` without awaiting anything.
Answer(c, q, inv, res) ==
    /\ inbound' = [inbound EXCEPT ![c] = q]
    /\ call' = [call EXCEPT ![c] = inv]
    /\ pc' = [pc EXCEPT ![c] = "done"]
    /\ result' = [result EXCEPT ![c] = Some(res)]
    /\ UNCHANGED <<sent, resp, client>>

\* The inbound request with query parameters q invokes `inv` on task c, and
\* the tool runs up to `await client.<method>(...)`: the request is built,
\* the request hook runs, and either it raises (the call fails with nothing
\* sent) or the request is sent and the task suspends.
Request(c, q, inv, req) ==
    LET inb == [inbound EXCEPT ![c] = q]
        hooked == set_auth_header(c, inb, req)
    IN  /\ inbound' = inb
        /\ call' = [call EXCEPT ![c] = inv]
        /\ IF "error" \in DOMAIN hooked
           THEN /\ pc' = [pc EXCEPT ![c] = "done"]
                /\ result' = [result EXCEPT ![c] = Some(hooked)]
                /\ sent' = sent
           ELSE /\ pc' = [pc EXCEPT ![c] = "awaiting"]
                /\ sent' = [sent EXCEPT ![c] = Transmit(@, hooked.request)]
                /\ result' = result
        /\ UNCHANGED <<resp, client>>

\* Task c is suspended in the await of `tool`.
Awaiting(c, tool) == pc[c] = "awaiting" /\ call[c].tool = tool

\* The await of call c produces r and the tool runs to its end with `res`.
Resume(c, r, res) ==
    /\ resp' = [resp EXCEPT ![c] = Some(r)]
    /\ result' = [result EXCEPT ![c] = Some(res)]
    /\ pc' = [pc EXCEPT ![c] = "done"]
    /\ UNCHANGED <<call, inbound, sent, client>>

(* The tools.  I holds the sets the arguments, the inbound query parameters *)
(* and the upstream's replies are drawn from.                               *)

search_qiita_items(I, c) ==
    /\ pc[c] = "idle"
    /\ \E q \in I.conns, query \in I.queries, page \in I.pages,
          per_page \in I.perPages :
            Request(c, q,
                    [tool |-> "search_qiita_items", query |-> query,
                     page |-> page, per_page |-> per_page],
                    BuildRequest("GET", "items",
                                 Some([query |-> query, page |-> page,
                                       per_page |-> per_page]), None))

search_qiita_items_resume(I, c) ==
    /\ Awaiting(c, "search_qiita_items")
    /\ \E r \in I.listReplies : Resume(c, r, search_qiita_items_result(r))

get_qiita_item(I, c) ==
    /\ pc[c] = "idle"
    /\ \E q \in I.conns, item_id \in I.itemIds :
            Request(c, q, [tool |-> "get_qiita_item", item_id |-> item_id],
                    BuildRequest("GET", "items/" \o item_id, None, None))

get_qiita_item_resume(I, c) ==
    /\ Awaiting(c, "get_qiita_item")
    /\ \E r \in I.itemReplies : Resume(c, r, get_qiita_item_result(r))

get_my_qiita_articles(I, c) ==
    /\ pc[c] = "idle"
    /\ \E q \in I.conns, page \in I.pages, per_page \in I.perPages :
            Request(c, q,
                    [tool |-> "get_my_qiita_articles", page |-> page,
                     per_page |-> per_page],
                    BuildRequest("GET", "authenticated_user/items",
                                 Some([page |-> page, per_page |-> per_page]),
                                 None))

get_my_qiita_articles_resume(I, c) ==
    /\ Awaiting(c, "get_my_qiita_articles")
    /\ \E r \in I.listReplies : Resume(c, r, get_my_qiita_articles_result(r))

post_qiita_article(I, c) ==
    /\ pc[c] = "idle"
    /\ \E q \in I.conns, title \in I.titles, body \in I.bodies,
          tags \in I.optTags, private \in I.privates, tweet \in I.tweets,
          org \in I.orgs :
            Request(c, q,
                    [tool |-> "post_qiita_article", title |-> title,
                     body |-> body, tags |-> tags, private |-> private,
                     tweet |-> tweet, organization_url_name |-> org],
                    BuildRequest("POST", "items", None,
                                 Some(PostPayload(title, body, tags, private,
                                                  tweet, org))))

post_qiita_article_resume(I, c) ==
    /\ Awaiting(c, "post_qiita_article")
    /\ \E r \in I.itemReplies : Resume(c, r, post_qiita_article_result(r))

update_qiita_article(I, c) ==
    /\ pc[c] = "idle"
    /\ \E q \in I.conns, item_id \in I.itemIds, title \in I.optTitles,
          body \in I.optBodies, tags \in I.optTags,
          private \in I.optPrivates :
            LET inv == [tool |-> "update_qiita_article", item_id |-> item_id,
                        title |-> title, body |-> body, tags |-> tags,
                        private |-> private]
                patch == UpdatePatch(title, body, tags, private)
            IN  IF DOMAIN patch = {}
                THEN Answer(c, q, inv, [ok |-> NothingToUpdate])
                ELSE Request(c, q, inv,
                             BuildRequest("PATCH", "items/" \o item_id, None,
                                          Some(patch)))

update_qiita_article_resume(I, c) ==
    /\ Awaiting(c, "update_qiita_article")
    /\ \E r \in I.itemReplies : Resume(c, r, update_qiita_article_result(r))

get_qiita_markdown_rules(I, c) ==
    /\ pc[c] = "idle"
    /\ \E q \in I.conns :
            Answer(c, q, [tool |-> "get_qiita_markdown_rules"],
                   [ok |-> MarkdownRules])

\* One tool call, every input.
Next ==
    \E c \in OneCall :
        \/ search_qiita_items(FullInputs, c)
        \/ search_qiita_items_resume(FullInputs, c)
        \/ get_qiita_item(FullInputs, c)
        \/ get_qiita_item_resume(FullInputs, c)
        \/ get_my_qiita_articles(FullInputs, c)
        \/ get_my_qiita_articles_resume(FullInputs, c)
        \/ post_qiita_article(FullInputs, c)
        \/ post_qiita_article_resume(FullInputs, c)
        \/ update_qiita_article(FullInputs, c)
        \/ update_qiita_article_resume(FullInputs, c)
        \/ get_qiita_markdown_rules(FullInputs, c)

\* NumCalls tool calls in flight together.
NextConc ==
    \E c \in Calls :
        \/ search_qiita_items(ConcInputs, c)
        \/ search_qiita_items_resume(ConcInputs, c)
        \/ get_qiita_item(ConcInputs, c)
        \/ get_qiita_item_resume(ConcInputs, c)
        \/ get_my_qiita_articles(ConcInputs, c)
        \/ get_my_qiita_articles_resume(ConcInputs, c)
        \/ post_qiita_article(ConcInputs, c)
        \/ post_qiita_article_resume(ConcInputs, c)
        \/ update_qiita_article(ConcInputs, c)
        \/ update_qiita_article_resume(ConcInputs, c)
        \/ get_qiita_markdown_rules(ConcInputs, c)

Spec == Init /\ [][Next]_vars
SpecConc == InitConc /\ [][NextConc]_vars

----------------------------------------------------------------------------
(* Properties *)

ReadTools == {"search_qiita_items", "get_qiita_item", "get_my_qiita_articles"}
WriteTools == {"post_qiita_article", "update_qiita_article"}

IsTool(c, tool) == pc[c] # "idle" /\ call[c].tool = tool

\* The fields of an update call that were supplied (are not None).
Supplied(inv) == {k \in {"title", "body", "tags", "private"} : inv[k] # None}

\* Call c got an upstream response (not a transport failure) that is not 2xx.
GotNon2xx(c) ==
    /\ resp[c] # None
    /\ "status" \in DOMAIN resp[c][1]
    /\ ~(resp[c][1].status >= 200 /\ resp[c][1].status < 300)

\* Call c got a 2xx upstream response.
Got2xx(c) ==
    /\ resp[c] # None
    /\ "status" \in DOMAIN resp[c][1]
    /\ resp[c][1].status >= 200 /\ resp[c][1].status < 300

Succeeded(c) == pc[c] = "done" /\ result[c] # None /\ "ok" \in DOMAIN result[c][1]
FailedCall(c) == pc[c] = "done" /\ result[c] # None /\ "error" \in DOMAIN result[c][1]

\* C1: an update_qiita_article call with title, body, tags and private all
\* omitted issues no outbound request and returns exactly
\* {"message": "Nothing to update."}, whatever the item_id.
C1_NothingToUpdate ==
    \A c \in DOMAIN pc :
        (IsTool(c, "update_qiita_article") /\ Supplied(call[c]) = {})
        => /\ pc[c] = "done"
           /\ sent[c] = <<>>
           /\ resp[c] = None
           /\ result[c] = Some([ok |-> [message |-> "Nothing to update."]])

C1_Witness ==
    \E c \in DOMAIN pc :
        /\ IsTool(c, "update_qiita_article") /\ Supplied(call[c]) = {}
        /\ call[c].item_id = "b"
        /\ "token" \in DOMAIN inbound[c]
        /\ pc[c] = "done"

\* C2 (as claimed): every update_qiita_article call with at least one of
\* title, body, tags, private supplied issues exactly one PATCH to
\* items/{item_id} whose body holds exactly the supplied fields with the
\* supplied values.
C2_ExactlySuppliedFields ==
    \A c \in DOMAIN pc :
        (IsTool(c, "update_qiita_article") /\ Supplied(call[c]) # {})
        => /\ Len(sent[c]) = 1
           /\ sent[c][1].method = "PATCH"
           /\ sent[c][1].url = "https://qiita.com/api/v2/items/" \o call[c].item_id
           /\ sent[c][1].json # None
           /\ DOMAIN sent[c][1].json[1] = Supplied(call[c])
           /\ \A k \in Supplied(call[c]) : sent[c][1].json[1][k] = call[c][k][1]

\* C3: a read tool (search_qiita_items, get_qiita_item,
\* get_my_qiita_articles) whose upstream response is not 2xx ends in a
\* propagated failure, never in a success result.
C3_ReadsFailOnNon2xx ==
    \A c \in DOMAIN pc :
        (pc[c] # "idle" /\ call[c].tool \in ReadTools /\ GotNon2xx(c))
        => /\ FailedCall(c)
           /\ result[c][1].error = "HTTPStatusError"

C3_Witness ==
    \E c \in DOMAIN pc :
        /\ IsTool(c, "search_qiita_items")
        /\ GotNon2xx(c)
        /\ resp[c][1].status = 404
        /\ resp[c][1].body = ErrorObject
        /\ FailedCall(c)

\* C4 (as claimed): a write tool (post_qiita_article, update_qiita_article
\* with a non-empty patch) whose upstream response is not 2xx does not fail
\* and returns the upstream body unchanged.
C4_WritesNeverFail ==
    \A c \in DOMAIN pc :
        (pc[c] # "idle" /\ call[c].tool \in WriteTools /\ GotNon2xx(c))
        => /\ Succeeded(c)
           /\ result[c][1].ok = resp[c][1].body

\* C4 (amended): a write tool whose upstream response is not 2xx and whose
\* body is JSON does not fail and returns the parsed body unchanged.
C4_WritesReturnJsonErrorBody ==
    \A c \in DOMAIN pc :
        (/\ pc[c] # "idle" /\ call[c].tool \in WriteTools /\ GotNon2xx(c)
         /\ "text" \notin DOMAIN resp[c][1].body)
        => /\ Succeeded(c)
           /\ result[c][1].ok = resp[c][1].body

C4_Witness ==
    \E c \in DOMAIN pc :
        /\ IsTool(c, "post_qiita_article")
        /\ GotNon2xx(c)
        /\ resp[c][1].status = 401
        /\ resp[c][1].body = ErrorObject
        /\ Succeeded(c)
        /\ result[c][1].ok = ErrorObject

\* C5 (as claimed): a search_qiita_items or get_qiita_item call whose inbound
\* request carries no token still issues its outbound GET, and returns the
\* upstream result on a 2xx response.
C5_TokenOptional ==
    \A c \in DOMAIN pc :
        (/\ pc[c] # "idle"
         /\ call[c].tool \in {"search_qiita_items", "get_qiita_item"}
         /\ "token" \notin DOMAIN inbound[c])
        => /\ Len(sent[c]) = 1
           /\ sent[c][1].method = "GET"
           /\ (pc[c] = "done" => resp[c] # None)

\* C6: under any interleaving of concurrent tool calls, every outbound
\* request carries Authorization: Bearer <t> with t the token of the inbound
\* request that triggered it, and the shared client's configuration is
\* never changed.
C6_TokenOfOwnInboundRequest ==
    /\ \A c \in DOMAIN pc :
        \A i \in 1..Len(sent[c]) :
            /\ "token" \in DOMAIN inbound[c]
            /\ "Authorization" \in DOMAIN sent[c][i].headers
            /\ sent[c][i].headers["Authorization"] = "Bearer " \o inbound[c].token
    /\ client = [base_url |-> "https://qiita.com/api/v2/", headers |-> EmptyDict]

C6_Witness ==
    \E c, d \in DOMAIN pc :
        /\ c < d
        /\ pc[c] = "awaiting" /\ pc[d] = "done" /\ resp[d] # None
        /\ Len(sent[c]) = 1 /\ Len(sent[d]) = 1
        /\ inbound[c].token = "tokA" /\ inbound[d].token = "tokB"

\* C7: every tool call issues at most one outbound request; once the await
\* has produced a response or a transport failure the call is over with its
\* result or failure and that one request; get_qiita_markdown_rules issues
\* none and returns its two fixed URLs.
C7_AtMostOneRequest ==
    \A c \in DOMAIN pc :
        /\ Len(sent[c]) <= 1
        /\ resp[c] # None
            => (pc[c] = "done" /\ result[c] # None /\ Len(sent[c]) = 1)
        /\ (resp[c] # None /\ "exc" \in DOMAIN resp[c][1])
            => (FailedCall(c) /\ result[c][1].error = resp[c][1].exc)
        /\ IsTool(c, "get_qiita_markdown_rules")
            => /\ sent[c] = <<>>
               /\ pc[c] = "done"
               /\ result[c] = Some([ok |-> [resources |->
                     <<"https://help.qiita.com/ja/articles/qiita-markdown",
                       "https://qiita.com/api/v2/docs">>]])

C7_Witness ==
    \E c \in DOMAIN pc :
        /\ IsTool(c, "get_my_qiita_articles")
        /\ resp[c] = Some(ConnectError)
        /\ FailedCall(c)
        /\ Len(sent[c]) = 1

\* The upstream items of a successful search and the results returned.
UpstreamItems(c) == resp[c][1].body.list
Results(c) == result[c][1].ok.results

SearchSucceeded(c) ==
    /\ IsTool(c, "search_qiita_items")
    /\ Succeeded(c)
    /\ "list" \in DOMAIN resp[c][1].body

\* C8: in every successful search_qiita_items call each snippet has at most
\* 200 characters and is the first min(200, len) characters of the upstream
\* item's rendered_body, the empty string when that is absent or null.
C8_SnippetIsPrefix ==
    \A c \in DOMAIN pc :
        SearchSucceeded(c)
        => \A i \in 1..Len(Results(c)) :
            LET snip == Results(c)[i].snippet
                it == UpstreamItems(c)[i]
            IN  /\ i <= Len(UpstreamItems(c))
                /\ Len(snip) <= 200
                /\ IF "rendered_body" \in DOMAIN it /\ it.rendered_body # <<>>
                   THEN LET rb == it.rendered_body[1]
                            n == IF Len(rb) < 200 THEN Len(rb) ELSE 200
                        IN  /\ Len(snip) = n
                            /\ \A j \in 1..n : snip[j] = rb[j]
                   ELSE snip = <<>>

C8_Witness ==
    \E c \in DOMAIN pc :
        /\ SearchSucceeded(c)
        /\ UpstreamItems(c) = <<ItemFull, ItemNullBody>>
        /\ Len(Results(c)) = 2
        /\ Len(UpstreamItems(c)[1].rendered_body[1]) > 200
        /\ Len(Results(c)[1].snippet) = 200
        /\ Results(c)[2].snippet = <<>>

\* C9 (as claimed): every post_qiita_article call issues exactly one POST to
\* items whose body has title, body and private, has tags and
\* organization_url_name only when a non-empty value was supplied, and never
\* has tweet, so that the body does not depend on the tweet argument.
C9_PostPayload ==
    \A c \in DOMAIN pc :
        IsTool(c, "post_qiita_article")
        => /\ Len(sent[c]) = 1
           /\ sent[c][1].method = "POST"
           /\ sent[c][1].url = "https://qiita.com/api/v2/items"
           /\ sent[c][1].json # None
           /\ LET p == sent[c][1].json[1]
                  a == call[c]
                  hasTags == a.tags # None /\ a.tags[1] # <<>>
                  hasOrg == a.organization_url_name # None
                            /\ a.organization_url_name[1] # ""
              IN  /\ DOMAIN p = {"title", "body", "private"}
                                 \cup (IF hasTags THEN {"tags"} ELSE {})
                                 \cup (IF hasOrg THEN {"organization_url_name"}
                                       ELSE {})
                  /\ p.title = a.title /\ p.body = a.body
                  /\ p.private = a.private
                  /\ hasTags => p.tags = a.tags[1]
                  /\ hasOrg => p.organization_url_name = a.organization_url_name[1]

ScalarKeys == {"id", "title", "url", "likes_count", "stocks_count",
               "created_at", "updated_at"}

\* C10: a successful search_qiita_items call returns one summary per
\* upstream item, in upstream order, each with exactly the keys id, title,
\* url, likes_count, stocks_count, created_at, updated_at, user{id,name},
\* tags, snippet; tags are the upstream tags' names in order (empty without
\* tags); a missing upstream field is null and does not make the call fail.
C10_SummaryPerItem ==
    \A c \in DOMAIN pc :
        /\ SearchSucceeded(c)
            => /\ Len(Results(c)) = Len(UpstreamItems(c))
               /\ \A i \in 1..Len(Results(c)) :
                    LET s == Results(c)[i]
                        it == UpstreamItems(c)[i]
                        u == IF "user" \in DOMAIN it THEN it.user[1] ELSE EmptyDict
                        ts == IF "tags" \in DOMAIN it THEN it.tags[1] ELSE <<>>
                    IN  /\ DOMAIN s = ScalarKeys \cup {"user", "tags", "snippet"}
                        /\ \A k \in ScalarKeys :
                            s[k] = IF k \in DOMAIN it THEN it[k] ELSE <<>>
                        /\ DOMAIN s.user = {"id", "name"}
                        /\ \A k \in {"id", "name"} :
                            s.user[k] = IF k \in DOMAIN u THEN u[k] ELSE <<>>
                        /\ Len(s.tags) = Len(ts)
                        /\ \A j \in 1..Len(ts) :
                            s.tags[j] = IF "name" \in DOMAIN ts[j]
                                        THEN ts[j].name ELSE <<>>
        /\ (/\ IsTool(c, "search_qiita_items") /\ Got2xx(c)
            /\ "list" \in DOMAIN resp[c][1].body
            /\ \A i \in 1..Len(UpstreamItems(c)) :
                /\ Get(UpstreamItems(c)[i], "user") # None
                    \/ "user" \notin DOMAIN UpstreamItems(c)[i]
                /\ Get(UpstreamItems(c)[i], "tags") # None
                    \/ "tags" \notin DOMAIN UpstreamItems(c)[i])
            => Succeeded(c)

C10_Witness ==
    \E c \in DOMAIN pc :
        /\ SearchSucceeded(c)
        /\ UpstreamItems(c) = <<ItemBare, ItemFull>>
        /\ Len(Results(c)) = 2
        /\ Results(c)[1].id = None /\ Results(c)[1].tags = <<>>
        /\ Results(c)[2].id = Some("i1")
        /\ Results(c)[2].tags = <<Some("python"), Some("fastmcp")>>

====
